---- MODULE Spec2Model ----
(***************************************************************************)
(* Model of udp_sas_mio (src/src/lib.rs): the UdpSas extension trait for   *)
(* mio::net::UdpSocket -- bind_sas, send_sas, recv_sas -- together with    *)
(* the collaborators it calls (UdpSocket::bind, local_addr, the handle     *)
(* conversion, udp_sas::set_pktinfo / send_sas / recv_sas) and the         *)
(* datagram transport between the sockets.                                 *)
(***************************************************************************)
EXTENDS Integers, Sequences, FiniteSets, TLC

\* ------------------------------------------------------------------ bounds
MaxQueue == 2      \* datagrams a socket's receive queue holds
BufLen == 2        \* length of the caller's receive buffer

\* --------------------------------------------------------------- addresses
Socks == {1, 2}
V4 == {"0.0.0.0", "127.0.0.1", "127.0.0.2"}
V6 == {"::", "::1"}
Wildcards == {"0.0.0.0", "::"}
Ephemeral == {8}
BindAddrs == {[ip |-> "0.0.0.0", port |-> 0], [ip |-> "0.0.0.0", port |-> 7],
              [ip |-> "::", port |-> 7]}
PrivilegedPorts == {7}
Ports == {7} \cup Ephemeral
Sources == {"127.0.0.1", "127.0.0.2"}
Payloads == {<<1>>, <<2, 1>>, <<1, 2, 2>>}

Min(a, b) == IF a < b THEN a ELSE b

\* SocketAddr::is_ipv4
is_ipv4(ip) == ip \in V4

VARIABLES
    target_family,  \* cfg(target_family) of the build: "unix" or "windows"
    msg,            \* the payload the callers send
    src_ip,         \* the source address the callers send from
    socks,          \* the open sockets, by handle
    buf,            \* the caller's receive buffer
    ret,            \* what the last call of the trait returned
    sys,            \* the underlying operations the last call made, in order
    panicked        \* the calling thread panicked

vars == <<target_family, msg, src_ip, socks, buf, ret, sys, panicked>>

NoAddr == [ip |-> "none", port |-> 0]
Closed == [open |-> FALSE, addr |-> NoAddr, pktinfo |-> "off", connected |-> FALSE,
           queue |-> <<>>, via |-> "none"]

\* call(arg) on socket sock returned tag: Ok(nb) / Ok((nb, peer, local)) / Err(kind, msg)
NoRet == [call |-> "none", sock |-> 0, arg |-> <<>>, tag |-> "none", kind |-> "none",
          msg |-> "none", nb |-> 0, peer |-> <<>>, local |-> <<>>]

\* One underlying operation and its result.
SysRec(op, fd) == [op |-> op, fd |-> fd, tag |-> "Ok", kind |-> "none", nb |-> 0,
                   src |-> <<>>, local |-> <<>>, payload |-> <<>>, target |-> <<>>,
                   source |-> <<>>, family |-> "none", addr |-> NoAddr]

Init ==
    /\ target_family \in {"unix", "windows"}
    /\ msg \in Payloads
    /\ src_ip \in Sources
    /\ socks = [s \in Socks |-> Closed]
    /\ buf = [i \in 1..BufLen |-> 0]
    /\ ret = NoRet
    /\ sys = <<>>
    /\ panicked = FALSE

\* ------------------------------------------------ collaborators of bind_sas
FreeSlots == {s \in Socks : ~socks[s].open}
UsedPorts == {socks[s].addr.port : s \in {x \in Socks : socks[x].open}}
NewFd == CHOOSE s \in FreeSlots : \A x \in FreeSlots : s <= x

\* mio::net::UdpSocket::bind: the possible results of binding a new
\* non-blocking socket to addr (port 0 asks for any free port).
UdpSocket_bind(addr) ==
    LET e == [SysRec("bind", 0) EXCEPT !.tag = "Err", !.target = <<addr>>]
        ports == IF addr.port = 0 THEN Ephemeral \ UsedPorts
                 ELSE {addr.port} \ UsedPorts
    IN  (IF addr.port \in PrivilegedPorts THEN {[e EXCEPT !.kind = "PermissionDenied"]}
         ELSE {})
        \cup (IF ports = {} THEN {[e EXCEPT !.kind = "AddrInUse"]} ELSE {})
        \cup (IF FreeSlots = {} THEN {[e EXCEPT !.kind = "Other"]}
              ELSE {[SysRec("bind", NewFd) EXCEPT !.target = <<addr>>,
                        !.addr = [ip |-> addr.ip, port |-> p]] : p \in ports})

\* UdpSocket::local_addr on the socket bind returned
local_addr(b) ==
    {[SysRec("local_addr", b.fd) EXCEPT !.addr = b.addr],
     [SysRec("local_addr", b.fd) EXCEPT !.tag = "Err", !.kind = "Other"]}

\* as_raw_fd (unix, infallible) / as_raw_socket().try_into() (windows)
as_raw(fd) ==
    {SysRec("as_raw", fd)}
    \cup (IF target_family = "windows"
          THEN {[SysRec("as_raw", fd) EXCEPT !.tag = "Err", !.kind = "TryFromIntError"]}
          ELSE {})

\* udp_sas::set_pktinfo: IP_PKTINFO (AF_INET) or IPV6_RECVPKTINFO (AF_INET6).
\* The IPv6 option does not exist on an IPv4 socket.
set_pktinfo(b, family) ==
    LET r == [SysRec("set_pktinfo", b.fd) EXCEPT !.family = family]
    IN  {[r EXCEPT !.tag = "Err", !.kind = "Other"]}
        \cup (IF family = "AF_INET6" /\ is_ipv4(b.addr.ip) THEN {} ELSE {r})

\* ---------------------------------------------------------------- bind_sas
\* bind_sas that always asks for the IPv4 option
family_of_v4only(addr) == "AF_INET"

\* let family = if sock.local_addr().unwrap().is_ipv4() { AF_INET } else { AF_INET6 }
family_of(addr) == IF is_ipv4(addr.ip) THEN "AF_INET" ELSE "AF_INET6"

\* The call returns the result r of an underlying operation unchanged (`?`, or
\* the tail expression).
Returns(call, s, arg, r, log) ==
    /\ ret' = [NoRet EXCEPT !.call = call, !.sock = s, !.arg = arg, !.tag = r.tag,
                            !.kind = r.kind, !.nb = r.nb]
    /\ sys' = log

\* unwrap() on an Err
Panics(call, arg, log) ==
    /\ ret' = [NoRet EXCEPT !.call = call, !.arg = arg, !.tag = "Panic"]
    /\ sys' = log
    /\ panicked' = TRUE

NewSock(b, family, via) ==
    [open |-> TRUE, addr |-> b.addr, pktinfo |-> family, connected |-> FALSE,
     queue |-> <<>>, via |-> via]

bind_sas(addr) ==
    /\ ~panicked
    /\ UNCHANGED <<target_family, msg, src_ip, buf>>
    /\ \E b \in UdpSocket_bind(addr) :
        IF b.tag = "Err"
        THEN Returns("bind_sas", 0, <<addr>>, b, <<b>>) /\ UNCHANGED <<socks, panicked>>
        ELSE \E la \in local_addr(b) :
            IF la.tag = "Err"
            THEN Panics("bind_sas", <<addr>>, <<b, la>>) /\ UNCHANGED socks
            ELSE \E cv \in as_raw(b.fd) :
                IF cv.tag = "Err"
                THEN Panics("bind_sas", <<addr>>, <<b, la, cv>>) /\ UNCHANGED socks
                ELSE \E sp \in set_pktinfo(b, family_of(la.addr)) :
                    /\ Returns("bind_sas", IF sp.tag = "Ok" THEN b.fd ELSE 0, <<addr>>, sp,
                               <<b, la, cv, sp>>)
                    /\ socks' = IF sp.tag = "Ok"
                                THEN [socks EXCEPT ![b.fd] = NewSock(b, sp.family, "bind_sas")]
                                ELSE socks
                    /\ UNCHANGED panicked

\* The caller binds a socket with UdpSocket::bind itself: no option is set.
plain_bind(addr) ==
    /\ ~panicked
    /\ \E b \in UdpSocket_bind(addr) :
        /\ b.tag = "Ok"
        /\ socks' = [socks EXCEPT ![b.fd] = NewSock(b, "off", "bind")]
    /\ ret' = NoRet
    /\ sys' = <<>>
    /\ UNCHANGED <<target_family, msg, src_ip, buf, panicked>>

\* The caller connects a socket (UdpSocket::connect): receives on it report no peer.
connect(s) ==
    /\ ~panicked
    /\ socks[s].open /\ ~socks[s].connected
    /\ socks' = [socks EXCEPT ![s].connected = TRUE]
    /\ ret' = NoRet
    /\ sys' = <<>>
    /\ UNCHANGED <<target_family, msg, src_ip, buf, panicked>>

\* ------------------------------------------------------- datagram transport
sock_family(s) == IF is_ipv4(socks[s].addr.ip) THEN "AF_INET" ELSE "AF_INET6"
ip_family(ip) == IF is_ipv4(ip) THEN "AF_INET" ELSE "AF_INET6"

\* The socket a datagram for target is queued on, if any.
Receivers(target) ==
    {r \in Socks : /\ socks[r].open
                   /\ socks[r].addr.port = target.port
                   /\ sock_family(r) = ip_family(target.ip)
                   /\ (socks[r].addr.ip \in Wildcards \/ socks[r].addr.ip = target.ip)}

\* The source address of a datagram sent without a source override.
DefaultSource(s, target) ==
    IF socks[s].addr.ip \in Wildcards THEN target.ip ELSE socks[s].addr.ip

Datagram(s, payload, target, source) ==
    [data |-> payload,
     src |-> [ip |-> IF source = <<>> THEN DefaultSource(s, target) ELSE source[1],
              port |-> socks[s].addr.port],
     dst |-> target.ip]

\* The sockets after the datagram left s: queued on its receiver, or dropped
\* when there is none or its queue is full.
Deliver(s, payload, target, source) ==
    [r \in Socks |->
        IF r \in Receivers(target) /\ Len(socks[r].queue) < MaxQueue
        THEN [socks[r] EXCEPT !.queue = Append(@, Datagram(s, payload, target, source))]
        ELSE socks[r]]

\* udp_sas::send_sas(fd, buf, target, local): the possible results of the
\* one sendmsg it makes.
udp_sas_send_sas(s, payload, target, source) ==
    LET r == [SysRec("send", s) EXCEPT !.payload = payload, !.target = target,
                                       !.source = source]
        e == [r EXCEPT !.tag = "Err"]
    IN  {[e EXCEPT !.kind = "WouldBlock"]}
        \cup (IF target = <<>> THEN {[e EXCEPT !.kind = "NotConnected"]}
              ELSE IF \/ ip_family(target[1].ip) # sock_family(s)
                      \/ (source # <<>> /\ ip_family(source[1]) # sock_family(s))
              THEN {[e EXCEPT !.kind = "InvalidInput"]}
              ELSE {[r EXCEPT !.nb = Len(payload)]})

\* udp_sas::recv_sas(fd, buf): the possible results of the one recvmsg it
\* makes. A datagram is taken off the queue and copied into the buffer; the
\* peer is not reported on a connected socket, the destination only when the
\* packet-info option of the socket's family is on.
udp_sas_recv_sas(s) ==
    IF socks[s].queue = <<>>
    THEN {[SysRec("recv", s) EXCEPT !.tag = "Err", !.kind = "WouldBlock"]}
    ELSE LET d == Head(socks[s].queue)
         IN  {[SysRec("recv", s) EXCEPT
                 !.nb = Min(Len(d.data), BufLen),
                 !.src = IF socks[s].connected THEN <<>> ELSE <<d.src>>,
                 !.local = IF socks[s].pktinfo = sock_family(s) THEN <<d.dst>> ELSE <<>>,
                 !.payload = d.data]}

\* The receive buffer after a datagram was copied into it.
Filled(b, data) == [i \in 1..BufLen |-> IF i <= Len(data) THEN data[i] ELSE b[i]]

\* ---------------------------------------------------------------- send_sas
\* send_sas without the source override / dropping the payload's last byte
send_args_plain(b, target, local) == [payload |-> b, target |-> <<target>>, source |-> <<>>]
send_args_short(b, target, local) ==
    [payload |-> SubSeq(b, 1, Len(b) - 1), target |-> <<target>>, source |-> <<local>>]

\* send_sas(fd, buf, Some(target), Some(local))
send_args(b, target, local) == [payload |-> b, target |-> <<target>>, source |-> <<local>>]

send_sas(s, b, target, local) ==
    /\ ~panicked
    /\ socks[s].open
    /\ LET a == send_args(b, target, local)
       IN  \E r \in udp_sas_send_sas(s, a.payload, a.target, a.source) :
            /\ Returns("send_sas", s, <<target, local>>, r, <<r>>)
            /\ socks' = IF r.tag = "Ok" THEN Deliver(s, a.payload, a.target[1], a.source)
                        ELSE socks
    /\ UNCHANGED <<target_family, msg, src_ip, buf, panicked>>

\* ---------------------------------------------------------------- recv_sas
LocalMsg == "local address not available (IP_PKTINFO/IPV6_RECVPKTINFO may not be enabled on the socket)"
SourceMsg == "source address not available (maybe the socket is connected)"

\* recv_sas falling back to the socket's bound address when no destination is reported
recv_match_default(s, nb, src, local) ==
    LET r == [NoRet EXCEPT !.call = "recv_sas", !.sock = s]
    IN  IF src # <<>>
        THEN [r EXCEPT !.tag = "Ok", !.nb = nb, !.peer = src,
                       !.local = IF local # <<>> THEN local ELSE <<socks[s].addr.ip>>]
        ELSE [r EXCEPT !.tag = "Err", !.kind = "InvalidData", !.msg = "local address not available (IP_PKTINFO/IPV6_RECVPKTINFO may not be enabled on the socket)"]

\* recv_sas reporting the socket's bound address instead of the datagram's destination
recv_match_bound(s, nb, src, local) ==
    LET r == [NoRet EXCEPT !.call = "recv_sas", !.sock = s]
    IN  IF src # <<>> /\ local # <<>>
        THEN [r EXCEPT !.tag = "Ok", !.nb = nb, !.peer = src, !.local = <<socks[s].addr.ip>>]
        ELSE [r EXCEPT !.tag = "Err", !.kind = "InvalidData", !.msg = "not available"]

\* match (src, local) of recv_sas
recv_match(s, nb, src, local) ==
    LET r == [NoRet EXCEPT !.call = "recv_sas", !.sock = s]
    IN  IF src # <<>> /\ local # <<>>
        THEN [r EXCEPT !.tag = "Ok", !.nb = nb, !.peer = src, !.local = local]
        ELSE IF src = <<>>
        THEN [r EXCEPT !.tag = "Err", !.kind = "InvalidData", !.msg = LocalMsg]
        ELSE [r EXCEPT !.tag = "Err", !.kind = "InvalidData", !.msg = SourceMsg]

\* recv_sas that leaves the datagram queued unless both addresses were reported
recv_sas_peek(s) ==
    /\ ~panicked
    /\ socks[s].open
    /\ \E r \in udp_sas_recv_sas(s) :
        IF r.tag = "Err"
        THEN Returns("recv_sas", s, <<>>, r, <<r>>) /\ UNCHANGED <<socks, buf>>
        ELSE /\ ret' = recv_match(s, r.nb, r.src, r.local)
             /\ sys' = <<r>>
             /\ socks' = IF ret'.tag = "Ok" THEN [socks EXCEPT ![s].queue = Tail(@)] ELSE socks
             /\ buf' = IF ret'.tag = "Ok" THEN Filled(buf, r.payload) ELSE buf
    /\ UNCHANGED <<target_family, msg, src_ip, panicked>>

recv_sas(s) ==
    /\ ~panicked
    /\ socks[s].open
    /\ \E r \in udp_sas_recv_sas(s) :
        IF r.tag = "Err"
        THEN Returns("recv_sas", s, <<>>, r, <<r>>) /\ UNCHANGED <<socks, buf>>
        ELSE /\ ret' = recv_match(s, r.nb, r.src, r.local)
             /\ sys' = <<r>>
             /\ socks' = [socks EXCEPT ![s].queue = Tail(@)]
             /\ buf' = Filled(buf, r.payload)
    /\ UNCHANGED <<target_family, msg, src_ip, panicked>>

\* ----------------------------------------------------------- specification
\* The endpoints s sends to: the loopback address, any port but its own.
Targets(s) == {[ip |-> "127.0.0.1", port |-> p] : p \in Ports \ {socks[s].addr.port}}

Next ==
    \/ \E addr \in BindAddrs : bind_sas(addr)
    \/ \E addr \in BindAddrs : plain_bind(addr)
    \/ \E s \in Socks : connect(s)
    \/ \E s \in Socks : \E target \in Targets(s) : send_sas(s, msg, target, src_ip)
    \/ \E s \in Socks : recv_sas(s)

Spec == Init /\ [][Next]_vars

\* ------------------------------------------------------------------ claims
Loopback == "127.0.0.1"
LastRecv == ret.call = "recv_sas"
Under == sys[1]
InvalidData == ret.tag = "Err" /\ ret.kind = "InvalidData"

\* C1: when the underlying receive succeeded and recv_sas fails for missing
\* metadata, the message names the piece that is actually missing: the
\* local-address message only when no local address was reported, the
\* source-address message only when no peer was reported.
C1_MessageNamesMissingPiece ==
    (LastRecv /\ InvalidData) =>
        /\ Under.tag = "Ok"
        /\ ret.msg \in {LocalMsg, SourceMsg}
        /\ ret.msg = LocalMsg => Under.local = <<>>
        /\ ret.msg = SourceMsg => Under.src = <<>>

\* C2: recv_sas returns Ok((nb, peer, local)) exactly when the underlying
\* receive succeeded and reported both a peer and a local address, and then nb,
\* peer and local are the values the underlying call returned.
C2_OkIffBothReported ==
    LastRecv =>
        /\ ret.tag = "Ok" <=> (Under.tag = "Ok" /\ Under.src # <<>> /\ Under.local # <<>>)
        /\ ret.tag = "Ok" => /\ ret.nb = Under.nb
                             /\ ret.peer = Under.src
                             /\ ret.local = Under.local

C2_Witness ==
    /\ LastRecv /\ ret.tag = "Ok"
    /\ ret.local # <<socks[ret.sock].addr.ip>>
    /\ ret.nb = Len(msg)

\* The bound address answers the request: the same address, and the requested
\* port, or a port the system chose when port 0 was requested.
Satisfies(bound, req) ==
    /\ bound.ip = req.ip
    /\ IF req.port = 0 THEN bound.port \in Ephemeral ELSE bound.port = req.port

\* C3: every socket bind_sas returned is bound as requested and has the
\* packet-info option of its bound address's family on; when bind_sas did not
\* return Ok it returned no socket, and the error of a failed bind or option
\* call is the error it returned.
C3_BindSasEnablesReporting ==
    /\ \A s \in Socks :
          (socks[s].open /\ socks[s].via = "bind_sas") => socks[s].pktinfo = sock_family(s)
    /\ (ret.call = "bind_sas" /\ ret.tag = "Ok") =>
          /\ ret.sock \in Socks
          /\ socks[ret.sock].open /\ socks[ret.sock].via = "bind_sas"
          /\ Satisfies(socks[ret.sock].addr, ret.arg[1])
          /\ socks[ret.sock].pktinfo = ip_family(ret.arg[1].ip)
    /\ (ret.call = "bind_sas" /\ ret.tag # "Ok") =>
          /\ ret.sock = 0
          /\ \A i \in 1..Len(sys) :
                (sys[i].op \in {"bind", "set_pktinfo"} /\ sys[i].tag = "Err")
                    => (ret.tag = "Err" /\ ret.kind = sys[i].kind)

C3_Witness ==
    /\ ret.call = "bind_sas" /\ ret.tag = "Ok"
    /\ ret.arg[1].port = 0
    /\ \E s \in Socks : socks[s].open /\ socks[s].via = "bind_sas"
                        /\ socks[s].pktinfo = "AF_INET6"

\* C4: send_sas makes exactly one underlying send, on the socket's own handle,
\* with the caller's payload, Some(target) and Some(local), and returns that
\* call's byte count or error unchanged.
C4_SendPassThrough ==
    ret.call = "send_sas" =>
        /\ Len(sys) = 1
        /\ Under.op = "send" /\ Under.fd = ret.sock
        /\ Under.payload = msg
        /\ Under.target = <<ret.arg[1]>>
        /\ Under.source = <<ret.arg[2]>>
        /\ ret.tag = Under.tag /\ ret.kind = Under.kind /\ ret.nb = Under.nb

C4_Witness ==
    /\ ret.call = "send_sas" /\ ret.tag = "Ok" /\ ret.nb = Len(msg)
    /\ ret.arg[2] # ret.arg[1].ip

\* C5: a call makes at most one attempt of each underlying operation, and a
\* failure of any of them is what the caller gets back, with its error kind; a
\* would-block is never answered by InvalidData or Ok.
C5_NoRetryNoSuppress ==
    /\ \A i, j \in 1..Len(sys) : sys[i].op = sys[j].op => i = j
    /\ \A i \in 1..Len(sys) :
          sys[i].tag = "Err" => (ret.tag = "Err" /\ ret.kind = sys[i].kind)

\* C6: a bind_sas socket on the wildcard address that receives a datagram sent
\* with send_sas to address A from source S reports local = A (not the
\* wildcard) and peer = (S, the sender's port).
C6_RoundTripAddressing ==
    (LastRecv /\ Under.tag = "Ok" /\ socks[ret.sock].via = "bind_sas"
        /\ socks[ret.sock].addr.ip \in Wildcards /\ ~socks[ret.sock].connected) =>
        /\ ret.tag = "Ok"
        /\ ret.local = <<Loopback>>
        /\ ret.peer[1].ip = src_ip
        /\ \E r \in Socks \ {ret.sock} : socks[r].open /\ socks[r].addr.port = ret.peer[1].port

C6_Witness ==
    /\ LastRecv /\ ret.tag = "Ok"
    /\ src_ip # Loopback
    /\ \A s \in Socks : socks[s].via = "bind_sas" /\ socks[s].addr.ip = "0.0.0.0"
    /\ ret.sock = 1 /\ socks[2].queue # <<>>

\* C7: a successful send_sas of N bytes returns N, and when N is not larger
\* than the receive buffer the recv_sas that receives the datagram returns
\* nb = N with the first N bytes of the buffer equal to the payload.
C7_ByteCountFidelity ==
    /\ (ret.call = "send_sas" /\ ret.tag = "Ok") => ret.nb = Len(msg)
    /\ (LastRecv /\ ret.tag = "Ok" /\ Len(msg) <= BufLen) =>
          /\ ret.nb = Len(msg)
          /\ SubSeq(buf, 1, ret.nb) = msg

C7_Witness ==
    /\ LastRecv /\ ret.tag = "Ok"
    /\ Len(msg) = 2 /\ Len(msg) <= BufLen
    /\ SubSeq(buf, 1, 2) = msg

\* C8: on a socket on which destination reporting was never enabled, every
\* recv_sas that reads a datagram fails with the missing-destination error of
\* kind InvalidData.
C8_NoMetadataError ==
    (LastRecv /\ Under.tag = "Ok" /\ socks[ret.sock].pktinfo = "off") =>
        /\ ret.tag = "Err" /\ ret.kind = "InvalidData"
        /\ ret.msg = LocalMsg

\* C9: no call panics, whatever the underlying operations answer.
C9_NoPanic == ~panicked /\ ret.tag # "Panic"

\* C10: a recv_sas that fails with InvalidData has taken the head datagram off
\* the socket's queue and copied it into the caller's buffer; one that fails
\* with would-block leaves queue and buffer as they were.
C10_InvalidDataConsumes ==
    [][ret'.call = "recv_sas" =>
          /\ (ret'.tag = "Err" /\ ret'.kind = "InvalidData") =>
                /\ socks[ret'.sock].queue # <<>>
                /\ socks'[ret'.sock].queue = Tail(socks[ret'.sock].queue)
                /\ buf' = Filled(buf, Head(socks[ret'.sock].queue).data)
          /\ (ret'.tag = "Err" /\ ret'.kind = "WouldBlock") =>
                (socks' = socks /\ buf' = buf)]_vars

C10_Witness ==
    /\ LastRecv /\ InvalidData
    /\ socks[ret.sock].queue # <<>>
    /\ Len(msg) <= BufLen /\ SubSeq(buf, 1, Len(msg)) = msg
====
